---- MODULE Spec2Model ----
(***************************************************************************)
(* Model of the Lobsang exploratory-data-analysis helpers:                 *)
(*   lobsang/levels.py         measurement level inference                 *)
(*   lobsang/numpy_helpers.py  groupby                                     *)
(*   lobsang/bivariate.py      _groupby                                    *)
(*   lobsang/chart_helpers.py  label_barh, label_bar,                      *)
(*                             make_percentage_labels                      *)
(*   lobsang/univariate.py     _label_barh, _label_bar,                    *)
(*                             _make_percentage_labels                     *)
(* Every function is stateless; the state of each specification is the     *)
(* argument list and the outcome of the most recent call (and, for the     *)
(* bar labelling functions, the matplotlib Axes they mutate).              *)
(***************************************************************************)
EXTENDS Integers, Sequences, FiniteSets, TLC

VARIABLES
    lv_call,    \* levels.py: arguments of the call (fn = "pending" before it)
    lv_out,     \* levels.py: outcome of the call
    gb_call,    \* groupby: arguments of the call
    gb_out,     \* groupby: outcome of the call
    pl_call,    \* make_percentage_labels: arguments of the call
    pl_out,     \* make_percentage_labels: the returned labels
    ax,         \* the matplotlib Axes: patches, texts, xlim, ylim
    ax_call,    \* bar labelling: the most recent call on ax and its arguments
    ax_out      \* bar labelling: outcome of the most recent call

vars == <<lv_call, lv_out, gb_call, gb_out, pl_call, pl_out, ax, ax_call, ax_out>>

other_than_lv == <<gb_call, gb_out, pl_call, pl_out, ax, ax_call, ax_out>>
other_than_gb == <<lv_call, lv_out, pl_call, pl_out, ax, ax_call, ax_out>>
other_than_pl == <<lv_call, lv_out, gb_call, gb_out, ax, ax_call, ax_out>>
other_than_ax == <<lv_call, lv_out, gb_call, gb_out, pl_call, pl_out>>

(***************************************************************************)
(* Bounds of the model.                                                    *)
(***************************************************************************)
MaxLen == 3
MaxVal == 3

(***************************************************************************)
(* Python / numpy helpers.                                                 *)
(***************************************************************************)
Min(a, b) == IF a <= b THEN a ELSE b
Max(a, b) == IF a >= b THEN a ELSE b

RECURSIVE SeqsUpTo(_, _)
SeqsUpTo(S, n) ==
    IF n = 0 THEN {<<>>}
    ELSE LET shorter == SeqsUpTo(S, n - 1)
         IN  shorter \cup {Append(s, x) : s \in {t \in shorter : Len(t) = n - 1}, x \in S}

Range(s) == {s[i] : i \in DOMAIN s}

\* np.unique(arr): the sorted sequence of the distinct elements of arr.
RECURSIVE SortedSeqOf(_)
SortedSeqOf(S) ==
    IF S = {} THEN <<>>
    ELSE LET m == CHOOSE x \in S : \A y \in S : x <= y
         IN  <<m>> \o SortedSeqOf(S \ {m})

RECURSIVE FirstSeen(_)
FirstSeen(arr) ==
    IF arr = <<>> THEN <<>>
    ELSE LET init == FirstSeen(SubSeq(arr, 1, Len(arr) - 1))
             last == arr[Len(arr)]
         IN  IF last \in Range(init) THEN init ELSE Append(init, last)

np_unique_unsorted(arr) == FirstSeen(arr)

np_unique(arr) == SortedSeqOf(Range(arr))

\* arr[0:k] for an integer k (Python slice semantics, negative k counts from
\* the end, out-of-range stops are clipped).
Slice0(arr, k) ==
    IF k >= 0 THEN SubSeq(arr, 1, Min(k, Len(arr)))
    ELSE SubSeq(arr, 1, Max(Len(arr) + k, 0))

(***************************************************************************)
(* levels.py                                                               *)
(***************************************************************************)
DefaultThreshold == 10

\* An optional keyword argument is <<>> when omitted (or None) and <<v>> when
\* given.
None == <<>>

Returned(v) == [raised |-> "none", ret |-> v]
Raised(e) == [raised |-> e, ret |-> "no_value"]

infer_by_count_strict(arr, threshold, use_first) ==
    LET a == IF use_first # None /\ use_first[1] # 0
             THEN Slice0(arr, use_first[1]) ELSE arr
        unique_count == Len(np_unique(a))
    IN  IF unique_count > threshold THEN "interval" ELSE "nominal"

infer_by_count_no_truncation(arr, threshold, use_first) ==
    LET unique_count == Len(np_unique(arr))
    IN  IF unique_count >= threshold THEN "interval" ELSE "nominal"

\* _infer_measurement_by_count(arr, threshold=10, use_first=None)
_infer_measurement_by_count(arr, threshold, use_first) ==
    LET a == IF use_first # None /\ use_first[1] # 0
             THEN Slice0(arr, use_first[1]) ELSE arr
        unique_count == Len(np_unique(a))
    IN  IF unique_count >= threshold THEN "interval" ELSE "nominal"

KwThreshold(kw) == IF kw.threshold = None THEN DefaultThreshold ELSE kw.threshold[1]

infer_measurement_level_no_assert(arr, method, kw) ==
    IF method = "count_unique"
    THEN Returned(_infer_measurement_by_count(arr, KwThreshold(kw), kw.use_first))
    ELSE Returned("None")

\* infer_measurement_level(arr, method="count_unique", **kwargs)
infer_measurement_level(arr, method, kw) ==
    IF method \notin {"count_unique"}
    THEN Raised("AssertionError")
    ELSE IF method = "count_unique"
         THEN Returned(_infer_measurement_by_count(arr, KwThreshold(kw), kw.use_first))
         ELSE Returned("None")

Columns == SeqsUpTo(1..MaxVal, MaxLen)
Thresholds == {None} \cup {<<t>> : t \in 0..(MaxLen + 1)}
UseFirsts == {None} \cup {<<k>> : k \in (-1)..(MaxLen + 1)}
Methods == {"count_unique", "count_distinct"}
Kwargs == [threshold : Thresholds, use_first : UseFirsts]

LvInputs ==
    [fn : {"pending"}, arr : Columns, method : Methods, kw : Kwargs]

\* A caller invokes infer_measurement_level on the pending arguments.
CallInferMeasurementLevel ==
    /\ lv_call.fn = "pending"
    /\ lv_call' = [lv_call EXCEPT !.fn = "infer_measurement_level"]
    /\ lv_out' = infer_measurement_level(lv_call.arr, lv_call.method, lv_call.kw)
    /\ UNCHANGED other_than_lv

\* A caller (the tests) invokes _infer_measurement_by_count directly; it has
\* no method argument.
CallInferMeasurementByCount ==
    /\ lv_call.fn = "pending"
    /\ lv_call.method = "count_unique"
    /\ lv_call' = [lv_call EXCEPT !.fn = "_infer_measurement_by_count"]
    /\ lv_out' = Returned(_infer_measurement_by_count(lv_call.arr,
                              KwThreshold(lv_call.kw), lv_call.kw.use_first))
    /\ UNCHANGED other_than_lv

LvNext == CallInferMeasurementLevel \/ CallInferMeasurementByCount

(***************************************************************************)
(* Properties of the level inferrer.                                       *)
(***************************************************************************)
LvCalled == lv_call.fn # "pending"
LvThreshold == KwThreshold(lv_call.kw)
LvDistinct(arr) == Cardinality(Range(arr))
LvPrefix(arr, k) == [i \in 1..Min(k, Len(arr)) |-> arr[i]]
LvLevelOf(n, t) == IF n >= t THEN "interval" ELSE "nominal"

C2_UseFirstPrefix ==
    (LvCalled /\ lv_call.method = "count_unique"
        /\ lv_call.kw.use_first # None /\ lv_call.kw.use_first[1] > 0)
        => LET k == lv_call.kw.use_first[1]
               prefix == LvPrefix(lv_call.arr, k)
           IN  /\ lv_out.raised = "none"
               /\ Len(prefix) = Min(k, Len(lv_call.arr))
               /\ lv_out.ret = LvLevelOf(LvDistinct(prefix), LvThreshold)
               /\ \A other \in Columns :
                      LvPrefix(other, k) = prefix
                          => _infer_measurement_by_count(other, LvThreshold, <<k>>)
                                 = lv_out.ret

\* A call whose use_first cut the column short and thereby changed the
\* classification from "interval" to "nominal".
C2_Witness ==
    /\ LvCalled /\ lv_call.method = "count_unique"
    /\ lv_call.kw.use_first # None /\ lv_call.kw.use_first[1] > 0
    /\ lv_call.kw.use_first[1] < Len(lv_call.arr)
    /\ LvDistinct(lv_call.arr) >= LvThreshold
    /\ lv_out.ret = "nominal"

\* C6: infer_measurement_level with a method other than "count_unique"
\* fails with an error and returns nothing (no level, no None); with
\* "count_unique" it never raises that error.
C6_InvalidMethodFails ==
    (lv_call.fn = "infer_measurement_level")
        => /\ (lv_call.method # "count_unique"
                  => lv_out.raised = "AssertionError" /\ lv_out.ret = "no_value")
           /\ (lv_call.method = "count_unique"
                  => lv_out.raised = "none" /\ lv_out.ret \in {"interval", "nominal"})

\* infer_measurement_level was called with an unknown method and raised.
C6_Witness ==
    /\ lv_call.fn = "infer_measurement_level"
    /\ lv_call.method # "count_unique"
    /\ lv_out.raised = "AssertionError"

(***************************************************************************)
(* numpy_helpers.py, bivariate.py                                          *)
(***************************************************************************)
GbMaxLen == 3
GbMaxKey == 3
GbMaxVal == 2

RECURSIVE GCD(_, _)
GCD(a, b) == IF b = 0 THEN a ELSE GCD(b, a % b)

\* Exact value n/d of an aggregate (d > 0), in lowest terms; NaN is <<0, 0>>.
Frac(n, d) == LET g == GCD(n, d) IN <<n \div g, d \div g>>
NaN == <<0, 0>>

RECURSIVE SeqSum(_)
SeqSum(s) == IF s = <<>> THEN 0 ELSE s[1] + SeqSum(Tail(s))

\* The aggregate functions callers pass as agg: np.mean, np.sum, len and
\* an order-sensitive one, lambda v: v[0].
Aggs == {"mean", "sum", "len", "first"}
OrderInsensitiveAggs == {"mean", "sum", "len"}

ApplyAgg(agg, sel) ==
    CASE agg = "mean"  -> IF sel = <<>> THEN Returned(NaN)
                          ELSE Returned(Frac(SeqSum(sel), Len(sel)))
      [] agg = "sum"   -> Returned(Frac(SeqSum(sel), 1))
      [] agg = "len"   -> Returned(Frac(Len(sel), 1))
      [] agg = "first" -> IF sel = <<>> THEN Raised("IndexError")
                          ELSE Returned(Frac(sel[1], 1))

MaskLe(keys, key) == [i \in 1..Len(keys) |-> keys[i] <= key]

\* keys == key on a numpy array: the elementwise boolean mask.
MaskEq(keys, key) == [i \in 1..Len(keys) |-> keys[i] = key]

\* values[mask] with a boolean mask: the elements at the True positions, in
\* order (the lengths agree when this is used).
RECURSIVE BoolSelect(_, _)
BoolSelect(values, mask) ==
    IF values = <<>> THEN <<>>
    ELSE (IF mask[1] THEN <<values[1]>> ELSE <<>>)
             \o BoolSelect(Tail(values), Tail(mask))

\* values[mask]: numpy raises IndexError when the boolean index and the
\* indexed array differ in length.
BoolIndex(values, mask) ==
    IF Len(mask) # Len(values) THEN Raised("IndexError")
    ELSE Returned(BoolSelect(values, mask))

\* aggregated[key] = v on an insertion-ordered dict, kept as a sequence of
\* <<key, value>> pairs.
DictSet(d, key, v) ==
    IF \E i \in DOMAIN d : d[i][1] = key
    THEN [i \in DOMAIN d |-> IF d[i][1] = key THEN <<key, v>> ELSE d[i]]
    ELSE Append(d, <<key, v>>)

GbFailed(e, calls) ==
    [raised |-> e, returned |-> FALSE, keys |-> <<>>, values |-> <<>>,
     agg_calls |-> calls]

\* The dict comprehension {key: agg(values[keys == key]) for key in uniq},
\* continued from the dict d built so far after calls calls of agg.
RECURSIVE DictComprehension(_, _, _, _, _, _)
DictComprehension(uniq, keys, values, agg, d, calls) ==
    IF uniq = <<>>
    THEN [raised |-> "none", returned |-> TRUE,
          keys |-> [i \in DOMAIN d |-> d[i][1]],
          values |-> [i \in DOMAIN d |-> d[i][2]],
          agg_calls |-> calls]
    ELSE LET key == Head(uniq)
             sel == BoolIndex(values, MaskEq(keys, key))
         IN  IF sel.raised # "none" THEN GbFailed(sel.raised, calls)
             ELSE LET a == ApplyAgg(agg, sel.ret)
                  IN  IF a.raised # "none" THEN GbFailed(a.raised, calls + 1)
                      ELSE DictComprehension(Tail(uniq), keys, values, agg,
                                             DictSet(d, key, a.ret), calls + 1)

groupby_rejecting_empty(keys, values, agg) ==
    IF keys = <<>> THEN GbFailed("ValueError", 0)
    ELSE DictComprehension(np_unique(keys), keys, values, agg, <<>>, 0)

\* groupby(keys, values, agg) of numpy_helpers.py.
groupby(keys, values, agg) ==
    DictComprehension(np_unique(keys), keys, values, agg, <<>>, 0)

\* _groupby(keys, values, agg) of bivariate.py (the same code).
_groupby(keys, values, agg) ==
    DictComprehension(np_unique(keys), keys, values, agg, <<>>, 0)

\* The documented example: keys [a,a,b,b,b,c] (a < b < c), values
\* [1,3,2,4,6,10], mean.
ExampleKeys == <<1, 1, 2, 2, 2, 3>>
ExampleValues == <<1, 3, 2, 4, 6, 10>>

GbInputs ==
    [fn : {"pending"}, keys : SeqsUpTo(1..GbMaxKey, GbMaxLen),
     values : SeqsUpTo(1..GbMaxVal, GbMaxLen), agg : Aggs]
    \cup {[fn |-> "pending", keys |-> ExampleKeys, values |-> ExampleValues,
           agg |-> "mean"]}

CallGroupby ==
    /\ gb_call.fn = "pending"
    /\ gb_call' = [gb_call EXCEPT !.fn = "groupby"]
    /\ gb_out' = groupby(gb_call.keys, gb_call.values, gb_call.agg)
    /\ UNCHANGED other_than_gb

CallGroupbyBivariate ==
    /\ gb_call.fn = "pending"
    /\ gb_call' = [gb_call EXCEPT !.fn = "_groupby"]
    /\ gb_out' = _groupby(gb_call.keys, gb_call.values, gb_call.agg)
    /\ UNCHANGED other_than_gb

GbNext == CallGroupby \/ CallGroupbyBivariate

(***************************************************************************)
(* chart_helpers.py, univariate.py: percentage labels                      *)
(***************************************************************************)
PlMaxLen == 3
PlMaxVal == 4
PlMaxDecimals == 2
DefaultDecimals == 1

RECURSIVE Pow10(_)
Pow10(d) == IF d = 0 THEN 1 ELSE 10 * Pow10(d - 1)

DigitChar(n) == <<"0", "1", "2", "3", "4", "5", "6", "7", "8", "9">>[n + 1]

\* str(n) for a natural number n, as a sequence of characters.
RECURSIVE Digits(_)
Digits(n) == IF n < 10 THEN <<DigitChar(n)>> ELSE Append(Digits(n \div 10), DigitChar(n % 10))

\* n written with exactly d digits, zero padded on the left.
RECURSIVE FixedDigits(_, _)
FixedDigits(n, d) ==
    IF d = 0 THEN <<>> ELSE Append(FixedDigits(n \div 10, d - 1), DigitChar(n % 10))

RoundDown(num, den) == num \div den

\* num/den (den > 0, num >= 0) rounded to the nearest integer, ties to the
\* even one: the rounding of the float formatter.  (The quotient value/sum
\* is a double; for the sums within the bounds of this model its formatted
\* value is the correctly rounded exact quotient.)
RoundHalfEven(num, den) ==
    LET fl == num \div den
        r2 == 2 * (num % den)
    IN  IF r2 > den \/ (r2 = den /\ fl % 2 = 1) THEN fl + 1 ELSE fl

\* "{value:.{decimals}%}".format(value = v / total, decimals = d): the value
\* times 100 in fixed point with d decimals, followed by a percent sign.
FormatPercent(v, total, d) ==
    IF total = 0
    THEN (IF v = 0 THEN <<"n", "a", "n", "%">> ELSE <<"i", "n", "f", "%">>)
    ELSE LET n == RoundHalfEven(v * 100 * Pow10(d), total)
         IN  Digits(n \div Pow10(d))
                 \o (IF d > 0 THEN <<".">> \o FixedDigits(n % Pow10(d), d) ELSE <<>>)
                 \o <<"%">>

KwDecimals(decimals) == IF decimals = None THEN DefaultDecimals ELSE decimals[1]

\* make_percentage_labels(values, decimals=1) of chart_helpers.py.
make_percentage_labels(values, decimals) ==
    LET total == SeqSum(values)
    IN  [i \in DOMAIN values |-> FormatPercent(values[i], total, KwDecimals(decimals))]

\* _make_percentage_labels(values, decimals=1) of univariate.py (same code).
_make_percentage_labels(values, decimals) ==
    LET total == SeqSum(values)
    IN  [i \in DOMAIN values |-> FormatPercent(values[i], total, KwDecimals(decimals))]

PlInputs ==
    [fn : {"pending"}, values : SeqsUpTo(0..PlMaxVal, PlMaxLen),
     decimals : {None} \cup {<<d>> : d \in 0..PlMaxDecimals}]

CallMakePercentageLabels ==
    /\ pl_call.fn = "pending"
    /\ pl_call' = [pl_call EXCEPT !.fn = "make_percentage_labels"]
    /\ pl_out' = make_percentage_labels(pl_call.values, pl_call.decimals)
    /\ UNCHANGED other_than_pl

CallMakePercentageLabelsUnivariate ==
    /\ pl_call.fn = "pending"
    /\ pl_call' = [pl_call EXCEPT !.fn = "_make_percentage_labels"]
    /\ pl_out' = _make_percentage_labels(pl_call.values, pl_call.decimals)
    /\ UNCHANGED other_than_pl

PlNext == CallMakePercentageLabels \/ CallMakePercentageLabelsUnivariate

(***************************************************************************)
(* chart_helpers.py, univariate.py: bar labelling                          *)
(*                                                                         *)
(* Coordinates are integers in tenths of a data unit (a bar is 0.8 wide    *)
(* and centred on its category position 0, 1, 2, ...).  A lower axis limit *)
(* is an integer; an upper limit is kept exactly, as [base, pow] for the   *)
(* value base * 1.03^pow, so that the factor 1.03 is applied without       *)
(* rounding.                                                               *)
(***************************************************************************)
AxMaxBars == 2
AxMaxVal == 2
AxMaxCalls == 1
BarThickness == 8
CategoryStep == 10

AxLabelPool == {"33.3%", "66.7%"}
AxLabelLists == SeqsUpTo(AxLabelPool, AxMaxBars + 1)

\* The limit b, not yet scaled.
Limit(b) == [base |-> b, pow |-> 0]

\* The view limits (lo, hi) the plotting call leaves on the two axes.
AxViewLimits ==
    { [xlim |-> [lo |-> 0, hi |-> Limit(21)], ylim |-> [lo |-> -5, hi |-> Limit(15)]],
      [xlim |-> [lo |-> -5, hi |-> Limit(15)], ylim |-> [lo |-> 0, hi |-> Limit(21)]] }

\* 1.03 * limit
Times103(f) == [base |-> f.base, pow |-> f.pow + 1]

\* ax.barh(headers, values): one horizontal bar per value.
BarhPatches(values) ==
    [i \in DOMAIN values |->
        [x |-> 0, y |-> CategoryStep * (i - 1) - BarThickness \div 2,
         width |-> CategoryStep * values[i], height |-> BarThickness]]

\* ax.bar(keys, values): one vertical bar per value.
BarPatches(values) ==
    [i \in DOMAIN values |->
        [x |-> CategoryStep * (i - 1) - BarThickness \div 2, y |-> 0,
         width |-> BarThickness, height |-> CategoryStep * values[i]]]

AxDone(a) == [raised |-> "none", ax |-> a]
AxAssertionError(a) == [raised |-> "AssertionError", ax |-> a]

\* zip(bars, labels) stops at the shorter of the two.
ZipLen(bars, labels) == Min(Len(bars), Len(labels))

\* Body of the loop of label_barh for the i-th (bar, label) pair.
LabelBarhStep(a, bar, label) ==
    [a EXCEPT
        !.texts = Append(@, [text |-> label, x |-> bar.width,
                             y |-> bar.y + bar.height \div 2,
                             ha |-> "left", va |-> "center"]),
        !.xlim = [lo |-> a.xlim.lo, hi |-> Times103(a.xlim.hi)]]

RECURSIVE LabelBarhLoop(_, _, _, _)
LabelBarhLoop(a, bars, labels, i) ==
    IF i > ZipLen(bars, labels) THEN a
    ELSE LabelBarhLoop(LabelBarhStep(a, bars[i], labels[i]), bars, labels, i + 1)

label_barh_no_assert(a, labels) ==
    AxDone(LabelBarhLoop(a, a.patches, labels, 1))

\* label_barh(ax, labels) of chart_helpers.py.
label_barh(a, labels) ==
    LET bars == a.patches
    IN  IF Len(bars) # Len(labels) THEN AxAssertionError(a)
        ELSE AxDone(LabelBarhLoop(a, bars, labels, 1))

\* Body of the loop of label_bar for the i-th (bar, label) pair.
LabelBarStep(a, bar, label) ==
    [a EXCEPT
        !.texts = Append(@, [text |-> label, x |-> bar.x + bar.width \div 2,
                             y |-> bar.height,
                             ha |-> "center", va |-> "bottom"]),
        !.ylim = [lo |-> a.ylim.lo, hi |-> Times103(a.ylim.hi)]]

RECURSIVE LabelBarLoop(_, _, _, _)
LabelBarLoop(a, bars, labels, i) ==
    IF i > ZipLen(bars, labels) THEN a
    ELSE LabelBarLoop(LabelBarStep(a, bars[i], labels[i]), bars, labels, i + 1)

\* label_bar(ax, labels) of chart_helpers.py.
label_bar(a, labels) ==
    LET bars == a.patches
    IN  IF Len(bars) # Len(labels) THEN AxAssertionError(a)
        ELSE AxDone(LabelBarLoop(a, bars, labels, 1))

\* Body of the loop of _label_barh: ax.text only, no limit is touched.
LabelBarhStepUnivariate(a, bar, label) ==
    [a EXCEPT
        !.texts = Append(@, [text |-> label, x |-> bar.width,
                             y |-> bar.y + bar.height \div 2,
                             ha |-> "left", va |-> "center"])]

RECURSIVE LabelBarhLoopUnivariate(_, _, _, _)
LabelBarhLoopUnivariate(a, bars, labels, i) ==
    IF i > ZipLen(bars, labels) THEN a
    ELSE LabelBarhLoopUnivariate(LabelBarhStepUnivariate(a, bars[i], labels[i]),
                                 bars, labels, i + 1)

\* _label_barh(ax, labels) of univariate.py.
_label_barh(a, labels) ==
    LET bars == a.patches
    IN  IF Len(bars) # Len(labels) THEN AxAssertionError(a)
        ELSE AxDone(LabelBarhLoopUnivariate(a, bars, labels, 1))

\* Body of the loop of _label_bar: ax.text only, no limit is touched.
LabelBarStepUnivariate(a, bar, label) ==
    [a EXCEPT
        !.texts = Append(@, [text |-> label, x |-> bar.x + bar.width \div 2,
                             y |-> bar.height,
                             ha |-> "center", va |-> "bottom"])]

RECURSIVE LabelBarLoopUnivariate(_, _, _, _)
LabelBarLoopUnivariate(a, bars, labels, i) ==
    IF i > ZipLen(bars, labels) THEN a
    ELSE LabelBarLoopUnivariate(LabelBarStepUnivariate(a, bars[i], labels[i]),
                                bars, labels, i + 1)

\* _label_bar(ax, labels) of univariate.py.
_label_bar(a, labels) ==
    LET bars == a.patches
    IN  IF Len(bars) # Len(labels) THEN AxAssertionError(a)
        ELSE AxDone(LabelBarLoopUnivariate(a, bars, labels, 1))

AxValues == SeqsUpTo(1..AxMaxVal, AxMaxBars) \ {<<>>}

\* ax.barh(headers, values) on the fresh Axes.
PlotBarh ==
    /\ ax_call.fn = "none"
    /\ \E values \in AxValues, lim \in AxViewLimits :
          ax' = [ax EXCEPT !.patches = BarhPatches(values),
                           !.xlim = lim.xlim, !.ylim = lim.ylim]
    /\ ax_call' = [ax_call EXCEPT !.fn = "barh"]
    /\ ax_out' = "none"
    /\ UNCHANGED other_than_ax

\* ax.bar(keys, values) on the fresh Axes.
PlotBar ==
    /\ ax_call.fn = "none"
    /\ \E values \in AxValues, lim \in AxViewLimits :
          ax' = [ax EXCEPT !.patches = BarPatches(values),
                           !.xlim = lim.xlim, !.ylim = lim.ylim]
    /\ ax_call' = [ax_call EXCEPT !.fn = "bar"]
    /\ ax_out' = "none"
    /\ UNCHANGED other_than_ax

AxLabelCall(fn, labels, r) ==
    /\ ax' = r.ax
    /\ ax_out' = r.raised
    /\ ax_call' = [fn |-> fn, labels |-> labels, n |-> ax_call.n + 1]
    /\ UNCHANGED other_than_ax

CallLabelBarh ==
    /\ ax_call.n < AxMaxCalls
    /\ \E labels \in AxLabelLists :
          AxLabelCall("label_barh", labels, label_barh(ax, labels))

CallLabelBar ==
    /\ ax_call.n < AxMaxCalls
    /\ \E labels \in AxLabelLists :
          AxLabelCall("label_bar", labels, label_bar(ax, labels))

CallLabelBarhUnivariate ==
    /\ ax_call.n < AxMaxCalls
    /\ \E labels \in AxLabelLists :
          AxLabelCall("_label_barh", labels, _label_barh(ax, labels))

CallLabelBarUnivariate ==
    /\ ax_call.n < AxMaxCalls
    /\ \E labels \in AxLabelLists :
          AxLabelCall("_label_bar", labels, _label_bar(ax, labels))

AxNext ==
    \/ PlotBarh
    \/ PlotBar
    \/ CallLabelBarh
    \/ CallLabelBar
    \/ CallLabelBarhUnivariate
    \/ CallLabelBarUnivariate

(***************************************************************************)
(* The specifications.  Each draws the arguments of one component from     *)
(* its bounded input set and leaves the other components idle.             *)
(***************************************************************************)
LvNoCall ==
    [fn |-> "pending", arr |-> <<>>, method |-> "count_unique",
     kw |-> [threshold |-> None, use_first |-> None]]

GbNoCall == [fn |-> "pending", keys |-> <<>>, values |-> <<>>, agg |-> "mean"]

PlNoCall == [fn |-> "pending", values |-> <<>>, decimals |-> None]

\* A fresh Axes (plt.subplots): nothing drawn, default view limits (0, 1).
FreshAxes ==
    [patches |-> <<>>, texts |-> <<>>,
     xlim |-> [lo |-> 0, hi |-> Limit(CategoryStep)],
     ylim |-> [lo |-> 0, hi |-> Limit(CategoryStep)]]

AxNoCall == [fn |-> "none", labels |-> <<>>, n |-> 0]

InitLevels ==
    /\ lv_call \in LvInputs
    /\ lv_out = Returned("no_call")
    /\ gb_call = GbNoCall
    /\ gb_out = GbFailed("no_call", 0)
    /\ pl_call = PlNoCall
    /\ pl_out = <<>>
    /\ ax = FreshAxes
    /\ ax_call = AxNoCall
    /\ ax_out = "none"

InitGroupby ==
    /\ lv_call = LvNoCall
    /\ lv_out = Returned("no_call")
    /\ gb_call \in GbInputs
    /\ gb_out = GbFailed("no_call", 0)
    /\ pl_call = PlNoCall
    /\ pl_out = <<>>
    /\ ax = FreshAxes
    /\ ax_call = AxNoCall
    /\ ax_out = "none"

InitLabels ==
    /\ lv_call = LvNoCall
    /\ lv_out = Returned("no_call")
    /\ gb_call = GbNoCall
    /\ gb_out = GbFailed("no_call", 0)
    /\ pl_call \in PlInputs
    /\ pl_out = <<>>
    /\ ax = FreshAxes
    /\ ax_call = AxNoCall
    /\ ax_out = "none"

InitAxes ==
    /\ lv_call = LvNoCall
    /\ lv_out = Returned("no_call")
    /\ gb_call = GbNoCall
    /\ gb_out = GbFailed("no_call", 0)
    /\ pl_call = PlNoCall
    /\ pl_out = <<>>
    /\ ax = FreshAxes
    /\ ax_call = AxNoCall
    /\ ax_out = "none"

SpecLevels == InitLevels /\ [][LvNext]_vars
SpecGroupby == InitGroupby /\ [][GbNext]_vars
SpecLabels == InitLabels /\ [][PlNext]_vars
SpecAxes == InitAxes /\ [][AxNext]_vars

(***************************************************************************)
(* Properties of the grouped aggregator.                                   *)
(***************************************************************************)
GbCalled == gb_call.fn # "pending"
GbSameLength == Len(gb_call.keys) = Len(gb_call.values)

\* The values whose row carries the key k, in row order.
RECURSIVE GbRowsOf(_, _, _)
GbRowsOf(keys, values, k) ==
    IF keys = <<>> THEN <<>>
    ELSE LET rest == GbRowsOf(SubSeq(keys, 1, Len(keys) - 1),
                              SubSeq(values, 1, Len(values) - 1), k)
         IN  IF keys[Len(keys)] = k THEN Append(rest, values[Len(values)]) ELSE rest

\* C3: on equal-length inputs groupby returns two aligned sequences of
\* equal length; the returned keys are exactly the distinct input keys, none
\* dropped, none duplicated; aggregated_values[i] is agg applied to exactly
\* the values of the rows whose key is unique_keys[i] (a one-element
\* collection for a key occurring once).
C3_GroupbyAggregatesPerKey ==
    (GbCalled /\ GbSameLength)
        => /\ gb_out.returned /\ gb_out.raised = "none"
           /\ Len(gb_out.keys) = Len(gb_out.values)
           /\ Range(gb_out.keys) = Range(gb_call.keys)
           /\ Len(gb_out.keys) = Cardinality(Range(gb_call.keys))
           /\ \A i \in DOMAIN gb_out.keys :
                  LET rows == GbRowsOf(gb_call.keys, gb_call.values, gb_out.keys[i])
                  IN  /\ rows # <<>>
                      /\ gb_out.values[i] = ApplyAgg(gb_call.agg, rows).ret

\* A call on three rows with a repeated key and a key occurring once, whose
\* mean over the repeated key is not a whole number.
C3_Witness ==
    /\ GbCalled /\ GbSameLength /\ gb_call.agg = "mean"
    /\ Len(gb_call.keys) = 3
    /\ Len(gb_out.keys) = 2
    /\ \E i \in DOMAIN gb_out.values : gb_out.values[i][2] = 2
    /\ \E i \in DOMAIN gb_out.keys :
           Len(GbRowsOf(gb_call.keys, gb_call.values, gb_out.keys[i])) = 1

GbPermuted(s, p) == [i \in DOMAIN s |-> s[p[i]]]

\* C4: the returned unique_keys are in strictly ascending order whatever the
\* order of first appearance in the input; the documented example yields
\* keys [a,b,c] and means [2,4,10]; permuting the input rows leaves the
\* returned keys unchanged and, for an aggregate that does not depend on the
\* order of its argument (such as the mean of the example), the aggregates
\* too.
C4_KeysSorted ==
    (GbCalled /\ GbSameLength)
        => /\ \A i, j \in DOMAIN gb_out.keys : i < j => gb_out.keys[i] < gb_out.keys[j]
           /\ (gb_call.keys = ExampleKeys /\ gb_call.values = ExampleValues
                   /\ gb_call.agg = "mean")
                  => /\ gb_out.keys = <<1, 2, 3>>
                     /\ gb_out.values = <<(<<2, 1>>), (<<4, 1>>), (<<10, 1>>)>>
           /\ \A p \in Permutations(DOMAIN gb_call.keys) :
                  LET other == groupby(GbPermuted(gb_call.keys, p),
                                       GbPermuted(gb_call.values, p), gb_call.agg)
                  IN  /\ other.keys = gb_out.keys
                      /\ gb_call.agg \in OrderInsensitiveAggs
                             => other.values = gb_out.values

\* A call whose keys first appear in descending order and come back
\* ascending.
C4_Witness ==
    /\ GbCalled /\ GbSameLength
    /\ Len(gb_call.keys) >= 2
    /\ gb_call.keys[1] > gb_call.keys[2]
    /\ Len(gb_out.keys) >= 2
    /\ gb_out.keys[1] < gb_out.keys[2]

\* C5 (as claimed): whenever len(keys) # len(values), groupby raises an error
\* and returns nothing, also when keys is empty and values is not.
C5_LengthMismatchRaises ==
    (GbCalled /\ ~GbSameLength)
        => gb_out.raised # "none" /\ ~gb_out.returned

\* C8: groupby on empty keys and empty values returns two empty sequences
\* without calling the aggregate function and without raising, for every
\* aggregate function.
C8_EmptyInput ==
    (GbCalled /\ gb_call.keys = <<>> /\ gb_call.values = <<>>)
        => /\ gb_out.returned /\ gb_out.raised = "none"
           /\ gb_out.keys = <<>> /\ gb_out.values = <<>>
           /\ gb_out.agg_calls = 0

\* groupby was called with mean on a pair of empty columns and returned.
C8_Witness ==
    /\ GbCalled /\ gb_call.keys = <<>> /\ gb_call.values = <<>>
    /\ gb_call.agg = "mean"
    /\ gb_out.returned

(***************************************************************************)
(* Properties of the percentage labels.                                    *)
(***************************************************************************)
PlCalled == pl_call.fn # "pending"
PlDecimals == KwDecimals(pl_call.decimals)
PlTotal == SeqSum(pl_call.values)
PlIsDigit(c) == c \in {"0", "1", "2", "3", "4", "5", "6", "7", "8", "9"}
PlDigitValue(c) == CHOOSE n \in 0..9 : DigitChar(n) = c

\* The number a sequence of digit characters denotes.
RECURSIVE PlParseDigits(_)
PlParseDigits(cs) ==
    IF cs = <<>> THEN 0
    ELSE 10 * PlParseDigits(SubSeq(cs, 1, Len(cs) - 1)) + PlDigitValue(cs[Len(cs)])

\* label is <digits>[.<d digits>]% (the point exactly when d > 0).
PlWellFormed(label, d) ==
    /\ Len(label) >= 2 + (IF d > 0 THEN d + 1 ELSE 0)
    /\ label[Len(label)] = "%"
    /\ \A i \in 1..(Len(label) - 1) :
           IF d > 0 /\ i = Len(label) - 1 - d THEN label[i] = "." ELSE PlIsDigit(label[i])

\* The percentage of a well formed label in units of 10^-d percent.
PlScaled(label, d) ==
    PlParseDigits(SelectSeq(SubSeq(label, 1, Len(label) - 1), PlIsDigit))

\* C9: make_percentage_labels returns one label per input value, in input
\* order; label i is values[i] / sum(values) as a percentage rounded to
\* decimals places (default 1) followed by "%"; [2,2,4] gives 25.0%, 25.0%,
\* 50.0% and, with decimals = 2, 25.00%, 25.00%, 50.00%.
C9_PercentageLabels ==
    PlCalled
        => /\ Len(pl_out) = Len(pl_call.values)
           /\ PlTotal > 0
                  => \A i \in DOMAIN pl_out :
                        /\ PlWellFormed(pl_out[i], PlDecimals)
                        /\ LET n == PlScaled(pl_out[i], PlDecimals)
                                exact == pl_call.values[i] * 100 * Pow10(PlDecimals)
                                diff == n * PlTotal - exact
                            IN  2 * diff <= PlTotal /\ 2 * diff >= -PlTotal
           /\ (pl_call.values = <<2, 2, 4>> /\ pl_call.decimals \in {None, <<1>>})
                  => pl_out = << <<"2", "5", ".", "0", "%">>,
                                 <<"2", "5", ".", "0", "%">>,
                                 <<"5", "0", ".", "0", "%">> >>
           /\ (pl_call.values = <<2, 2, 4>> /\ pl_call.decimals = <<2>>)
                  => pl_out = << <<"2", "5", ".", "0", "0", "%">>,
                                 <<"2", "5", ".", "0", "0", "%">>,
                                 <<"5", "0", ".", "0", "0", "%">> >>

\* Labels were made with the default decimals for values whose percentages
\* need rounding (1/3 and 2/3): 33.3% and 66.7%.
C9_Witness ==
    /\ PlCalled
    /\ pl_call.values = <<1, 2>>
    /\ pl_call.decimals = None
    /\ pl_out = << <<"3", "3", ".", "3", "%">>, <<"6", "6", ".", "7", "%">> >>

(***************************************************************************)
(* Properties of the bar labelling.                                        *)
(***************************************************************************)
AxLabelFns == {"label_barh", "label_bar", "_label_barh", "_label_bar"}

\* This step is a call of one of the four labelling functions.
AxLabelStep == ax_call'.n = ax_call.n + 1 /\ ax_call'.fn \in AxLabelFns

\* Where the label of bar b goes: at the end of a horizontal bar, on top of
\* a vertical one.
AxAnchor(fn, b) ==
    IF fn \in {"label_barh", "_label_barh"}
    THEN [x |-> b.width, y |-> b.y + b.height \div 2]
    ELSE [x |-> b.x + b.width \div 2, y |-> b.height]

\* C7: labelling N bars with a label list of another length raises the
\* assertion failure before any label is placed or any axis limit is
\* changed; labelling with exactly N labels succeeds and places exactly one
\* label per bar, label i on bar i.
C7_LabelCountContract ==
    [][AxLabelStep =>
          LET N == Len(ax.patches)
              labels == ax_call'.labels
          IN  /\ Len(labels) # N => ax_out' = "AssertionError" /\ ax' = ax
              /\ Len(labels) = N
                     => /\ ax_out' = "none"
                        /\ ax'.patches = ax.patches
                        /\ Len(ax'.texts) = Len(ax.texts) + N
                        /\ SubSeq(ax'.texts, 1, Len(ax.texts)) = ax.texts
                        /\ \A i \in 1..N :
                               LET t == ax'.texts[Len(ax.texts) + i]
                                   at == AxAnchor(ax_call'.fn, ax.patches[i])
                               IN  t.text = labels[i] /\ t.x = at.x /\ t.y = at.y
      ]_vars

\* Two bars were labelled with three labels: the assertion fired and the
\* Axes carries no label.
C7_Witness ==
    /\ ax_call.fn \in AxLabelFns
    /\ Len(ax.patches) = 2
    /\ Len(ax_call.labels) = 3
    /\ ax_out = "AssertionError"
    /\ ax.texts = <<>>

\* C10 (as claimed): a successful label_bar (label_barh) on N >= 1 bars
\* leaves the upper y-limit (x-limit) at 1.03 times its value before the
\* call, whatever N, and the lower limit unchanged.
C10_FixedThreePercentMargin ==
    [][(AxLabelStep /\ ax_out' = "none" /\ Len(ax.patches) >= 1)
          => /\ ax_call'.fn = "label_bar"
                    => ax'.ylim.hi = Times103(ax.ylim.hi) /\ ax'.ylim.lo = ax.ylim.lo
             /\ ax_call'.fn = "label_barh"
                    => ax'.xlim.hi = Times103(ax.xlim.hi) /\ ax'.xlim.lo = ax.xlim.lo
      ]_vars

====
